---- MODULE Spec2Model ----
(***************************************************************************)
(* Model of cmd/gpt/main.go: a Bubble Tea program (the Event Loop, which   *)
(* calls model.Update for every message it receives) and the command       *)
(* started by model.createChatCompletion (the Requester), coupled by the   *)
(* two unbuffered channels inputMessage and deltaMessage.                  *)
(*                                                                         *)
(* A string is a sequence of tokens, string concatenation is \o.  The      *)
(* commands an Update returns (waitForDelta, tea.Quit) run in goroutines   *)
(* of their own; the message a command returns reaches Update only when    *)
(* the Event Loop is back at its receive.                                  *)
(* Init is the program once the commands of model.Init are running: the    *)
(* Requester waits at <-m.inputMessage and one waitForDelta waits at       *)
(* <-msg.  The widgets' own key handling (cursor, scrolling, blinking) is  *)
(* left out; of m.textarea the model keeps the value and the width, of     *)
(* m.viewport the content.                                                 *)
(***************************************************************************)
EXTENDS Integers, Sequences, FiniteSets, TLC

\* Bounds of the model.
MaxSubmits == 2    \* Enter keys the user presses
MaxFrags == 3      \* fragments the service delivers, over all streams
MaxRunes == 1      \* runes the user types, over all messages
MaxQuits == 1      \* Esc / Ctrl-C keys the user presses

\* ta.CharLimit (main.go:74), the initial ta.SetWidth (main.go:76).
CharLimit == 280
InitialTextareaWidth == 300

Runes == {"a"}
WindowSizes == {<<80, 24>>}
KeyTypes == {"KeyCtrlC", "KeyEsc", "KeyEnter", "KeyRunes"}
Digits == <<"1", "2", "3", "4", "5", "6", "7", "8", "9">>

VARIABLES
  messages,    \* m.messages: the transcript, a sequence of lines
  textarea,    \* m.textarea.Value(): the pending input
  taWidth,     \* width of m.textarea
  vpContent,   \* lines shown by m.viewport
  width,       \* m.width
  height,      \* m.height
  err,         \* m.err
  stdout,      \* lines written by fmt.Println
  elpc,        \* Event Loop: "dispatch", "sending" (main.go:136), "done", "panic"
  message,     \* local `message` of Update, case tea.KeyEnter
  inputEv,     \* terminal event read and waiting to be received by the Event Loop
  waiters,     \* waitForDelta commands blocked in <-msg (main.go:33)
  deltaMsgs,   \* deltaMsg values returned by waitForDelta, not yet received
  errMsgs,     \* errMsg values returned by createChatCompletion, not yet received
  quitMsgs,    \* QuitMsg values returned by tea.Quit, not yet received
  rpc,         \* Requester: "recvInput", "create", "recv", "sendDelta", "done"
  content,     \* Requester: the value received from inputMessage
  delta,       \* Requester: response.Choices[0].Delta.Content being sent
  requests,    \* requests passed to CreateChatCompletionStream, in order
  streams,     \* streams opened, in order: [eof, closed]
  recvd,       \* recvd[k]: fragments stream.Recv returned on stream k
  submitted    \* texts of the Enter keys handled, in order

uiVars == <<messages, textarea, taWidth, vpContent, width, height, err, stdout>>
elVars == <<elpc, message, submitted>>
cmdVars == <<waiters, deltaMsgs, errMsgs, quitMsgs>>
reqVars == <<rpc, content, delta, requests, streams, recvd>>
vars == <<uiVars, elVars, inputEv, cmdVars, reqVars>>

NoEvent == [kind |-> "none", rune |-> "", w |-> 0, h |-> 0]
KeyMsg(type, r) == [kind |-> type, rune |-> r, w |-> 0, h |-> 0]
WindowSizeMsg(w, h) == [kind |-> "WindowSizeMsg", rune |-> "", w |-> w, h |-> h]

\* lipgloss ... Render(label): the styled label, one token.
Render(label) == <<label>>
UserLine(text) == Render("You: ") \o text
SystemLine == Render("System: ")

\* Content of the j-th fragment the service sends on the k-th stream.
FragText(k, j) == <<Digits[k] \o "." \o Digits[j]>>

\* Mutant: the request is built without the submitted text.
ChatCompletionRequest_NoContent(c) ==
  [Model |-> "gpt-3.5-turbo", Messages |-> <<[Role |-> "user", Content |-> <<>>]>>]

ChatCompletionRequest(c) ==
  [Model |-> "gpt-3.5-turbo", Messages |-> <<[Role |-> "user", Content |-> c]>>]

\* Mutant: Enter appends the user line only, no placeholder line.
AppendSubmission_NoPlaceholder(ms, text) == Append(ms, UserLine(text))

\* Mutant: the Submit handler sends the message without recording it.
AppendSubmission_Lost(ms, text) == ms

\* Mutant: the newest exchange is put on top of the transcript.
AppendSubmission_Prepend(ms, text) == <<UserLine(text), SystemLine>> \o ms

\* main.go:130-131: the two appends of case tea.KeyEnter.
AppendSubmission(ms, text) == ms \o <<UserLine(text), SystemLine>>

\* Mutant: the fragment replaces the text of the last line (= for +=).
ApplyDelta_Overwrite(ms, d) == [ms EXCEPT ![Len(ms)] = SystemLine \o d]

\* main.go:146: m.messages[len(m.messages)-1] += string(msg)
ApplyDelta(ms, d) == [ms EXCEPT ![Len(ms)] = @ \o d]

\* Mutant: the Requester goes on with its loop after an error.
AfterReturn_Continue == "recvInput"

\* main.go:185, 196: return errMsg(err) ends the command.
AfterReturn == "done"

RECURSIVE SumLen(_)
SumLen(ss) == IF ss = <<>> THEN 0 ELSE Len(Head(ss)) + SumLen(Tail(ss))

RemoveAt(s, i) == SubSeq(s, 1, i - 1) \o SubSeq(s, i + 1, Len(s))

Running == elpc \notin {"done", "panic"}

Init ==
  /\ messages = <<>>
  /\ textarea = <<>>
  /\ taWidth = InitialTextareaWidth
  /\ vpContent = << <<"Welcome to the chat room!">>,
                    <<"Type a message and press Enter to send.">> >>
  /\ width = 0
  /\ height = 0
  /\ err = "nil"
  /\ stdout = <<>>
  /\ elpc = "dispatch"
  /\ message = <<>>
  /\ inputEv = NoEvent
  /\ waiters = 1
  /\ deltaMsgs = <<>>
  /\ errMsgs = <<>>
  /\ quitMsgs = 0
  /\ rpc = "recvInput"
  /\ content = <<>>
  /\ delta = <<>>
  /\ requests = <<>>
  /\ streams = <<>>
  /\ recvd = <<>>
  /\ submitted = <<>>

(***************************************************************************)
(* The terminal: a key press or a resize is read and offered to the Event  *)
(* Loop.                                                                   *)
(***************************************************************************)
KeyPress ==
  /\ Running
  /\ inputEv = NoEvent
  /\ \E type \in KeyTypes :
       \/ /\ type \in {"KeyCtrlC", "KeyEsc"}
          /\ Len(stdout) < MaxQuits
          /\ inputEv' = KeyMsg(type, "")
       \/ /\ type = "KeyEnter"
          /\ Len(submitted) < MaxSubmits
          /\ inputEv' = KeyMsg(type, "")
       \/ /\ type = "KeyRunes"
          /\ Len(textarea) + SumLen(submitted) < MaxRunes
          /\ \E r \in Runes : inputEv' = KeyMsg(type, r)
  /\ UNCHANGED <<uiVars, elVars, cmdVars, reqVars>>

WindowResize ==
  /\ Running
  /\ inputEv = NoEvent
  /\ \E sz \in WindowSizes : inputEv' = WindowSizeMsg(sz[1], sz[2])
  /\ UNCHANGED <<uiVars, elVars, cmdVars, reqVars>>

(***************************************************************************)
(* model.Update, one action per case of its switch.                        *)
(***************************************************************************)
UpdateKeyQuit ==
  /\ elpc = "dispatch"
  /\ inputEv.kind \in {"KeyCtrlC", "KeyEsc"}
  /\ stdout' = Append(stdout, textarea)
  /\ quitMsgs' = quitMsgs + 1
  /\ inputEv' = NoEvent
  /\ UNCHANGED <<messages, textarea, taWidth, vpContent, width, height, err,
                 elVars, waiters, deltaMsgs, errMsgs, reqVars>>

\* Mutant: an empty input is not submitted.
UpdateKeyEnter_SkipEmpty ==
  /\ elpc = "dispatch"
  /\ inputEv.kind = "KeyEnter"
  /\ inputEv' = NoEvent
  /\ IF textarea = <<>>
     THEN UNCHANGED <<messages, vpContent, textarea, message, submitted, elpc>>
     ELSE /\ message' = textarea
          /\ messages' = AppendSubmission(messages, textarea)
          /\ vpContent' = messages'
          /\ textarea' = <<>>
          /\ submitted' = Append(submitted, textarea)
          /\ elpc' = "sending"
  /\ UNCHANGED <<taWidth, width, height, err, stdout, cmdVars, reqVars>>

UpdateKeyEnter ==
  /\ elpc = "dispatch"
  /\ inputEv.kind = "KeyEnter"
  /\ message' = textarea
  /\ messages' = AppendSubmission(messages, textarea)
  /\ vpContent' = messages'
  /\ textarea' = <<>>
  /\ submitted' = Append(submitted, textarea)
  /\ elpc' = "sending"
  /\ inputEv' = NoEvent
  /\ UNCHANGED <<taWidth, width, height, err, stdout, cmdVars, reqVars>>

\* m.inputMessage <- message (main.go:136) meets <-m.inputMessage (main.go:179);
\* Update then runs to its end and the Event Loop receives again.
InputMessageSend ==
  /\ elpc = "sending"
  /\ rpc = "recvInput"
  /\ content' = message
  /\ rpc' = "create"
  /\ elpc' = "dispatch"
  /\ UNCHANGED <<uiVars, message, submitted, inputEv, cmdVars,
                 delta, requests, streams, recvd>>

UpdateKeyOther ==
  /\ elpc = "dispatch"
  /\ inputEv.kind = "KeyRunes"
  /\ textarea' = IF Len(textarea) < CharLimit
                 THEN Append(textarea, inputEv.rune) ELSE textarea
  /\ inputEv' = NoEvent
  /\ UNCHANGED <<messages, taWidth, vpContent, width, height, err, stdout,
                 elVars, cmdVars, reqVars>>

\* Mutant: the resize handler also returns a waitForDelta command.
UpdateWindowSize_Rearm ==
  /\ elpc = "dispatch"
  /\ inputEv.kind = "WindowSizeMsg"
  /\ width' = inputEv.w
  /\ height' = inputEv.h
  /\ taWidth' = inputEv.w
  /\ waiters' = waiters + 1
  /\ inputEv' = NoEvent
  /\ UNCHANGED <<messages, textarea, vpContent, err, stdout,
                 elVars, deltaMsgs, errMsgs, quitMsgs, reqVars>>

UpdateWindowSize ==
  /\ elpc = "dispatch"
  /\ inputEv.kind = "WindowSizeMsg"
  /\ width' = inputEv.w
  /\ height' = inputEv.h
  /\ taWidth' = inputEv.w
  /\ inputEv' = NoEvent
  /\ UNCHANGED <<messages, textarea, vpContent, err, stdout,
                 elVars, cmdVars, reqVars>>

\* Mutant: once an error is recorded, a fragment that arrives is dropped.
UpdateDelta_IgnoreAfterErr ==
  /\ elpc = "dispatch"
  /\ \E i \in 1..Len(deltaMsgs) :
       /\ deltaMsgs' = RemoveAt(deltaMsgs, i)
       /\ IF Len(messages) = 0
          THEN /\ elpc' = "panic"
               /\ UNCHANGED <<messages, vpContent, waiters>>
          ELSE /\ messages' = IF err = "nil" THEN ApplyDelta(messages, deltaMsgs[i])
                                             ELSE messages
               /\ vpContent' = messages'
               /\ waiters' = waiters + 1
               /\ elpc' = elpc
  /\ UNCHANGED <<textarea, taWidth, width, height, err, stdout, message,
                 submitted, inputEv, errMsgs, quitMsgs, reqVars>>

\* Mutant: after applying a fragment Update itself reads the next one from
\* deltaMessage instead of returning a waitForDelta command.
UpdateDelta_BlockingRead ==
  /\ elpc = "dispatch"
  /\ \E i \in 1..Len(deltaMsgs) :
       /\ deltaMsgs' = RemoveAt(deltaMsgs, i)
       /\ IF Len(messages) = 0
          THEN /\ elpc' = "panic"
               /\ UNCHANGED <<messages, vpContent>>
          ELSE /\ messages' = ApplyDelta(messages, deltaMsgs[i])
               /\ vpContent' = messages'
               /\ elpc' = "recvDelta"
  /\ UNCHANGED <<textarea, taWidth, width, height, err, stdout, message,
                 submitted, inputEv, waiters, errMsgs, quitMsgs, reqVars>>

\* m.messages[len(m.messages)-1] += string(msg): the index is -1, and the
\* program panics, when the transcript is empty.
UpdateDelta ==
  /\ elpc = "dispatch"
  /\ \E i \in 1..Len(deltaMsgs) :
       /\ deltaMsgs' = RemoveAt(deltaMsgs, i)
       /\ IF Len(messages) = 0
          THEN /\ elpc' = "panic"
               /\ UNCHANGED <<messages, vpContent, waiters>>
          ELSE /\ messages' = ApplyDelta(messages, deltaMsgs[i])
               /\ vpContent' = messages'
               /\ waiters' = waiters + 1
               /\ elpc' = elpc
  /\ UNCHANGED <<textarea, taWidth, width, height, err, stdout, message,
                 submitted, inputEv, errMsgs, quitMsgs, reqVars>>

UpdateErr ==
  /\ elpc = "dispatch"
  /\ errMsgs # <<>>
  /\ err' = Head(errMsgs)
  /\ errMsgs' = Tail(errMsgs)
  /\ UNCHANGED <<messages, textarea, taWidth, vpContent, width, height, stdout,
                 elVars, inputEv, waiters, deltaMsgs, quitMsgs, reqVars>>

\* The Event Loop receives the QuitMsg of tea.Quit: Run returns, the process ends.
QuitProgram ==
  /\ elpc = "dispatch"
  /\ quitMsgs > 0
  /\ quitMsgs' = quitMsgs - 1
  /\ elpc' = "done"
  /\ UNCHANGED <<uiVars, message, submitted, inputEv, waiters, deltaMsgs,
                 errMsgs, reqVars>>

(***************************************************************************)
(* The Requester: the command returned by model.createChatCompletion.      *)
(***************************************************************************)
\* Mutant: only the stream of the failed response is closed.
CloseAll_LastOnly(ss) ==
  [k \in 1..Len(ss) |-> IF k = Len(ss) THEN [ss[k] EXCEPT !.closed = TRUE] ELSE ss[k]]

CloseAll(ss) == [k \in 1..Len(ss) |-> [ss[k] EXCEPT !.closed = TRUE]]

CreateChatCompletionStream ==
  /\ Running
  /\ rpc = "create"
  /\ requests' = Append(requests, ChatCompletionRequest(content))
  /\ \/ /\ streams' = Append(streams, [eof |-> FALSE, closed |-> FALSE])
        /\ recvd' = Append(recvd, <<>>)
        /\ rpc' = "recv"
        /\ UNCHANGED errMsgs
     \/ /\ streams' = CloseAll(streams)
        /\ errMsgs' = Append(errMsgs, "createErr")
        /\ rpc' = AfterReturn
        /\ UNCHANGED recvd
  /\ UNCHANGED <<uiVars, elVars, inputEv, waiters, deltaMsgs, quitMsgs,
                 content, delta>>

StreamRecv ==
  /\ Running
  /\ rpc = "recv"
  /\ LET k == Len(streams) IN
       \/ /\ SumLen(recvd) < MaxFrags
          /\ delta' = FragText(k, Len(recvd[k]) + 1)
          /\ recvd' = [recvd EXCEPT ![k] = Append(@, delta')]
          /\ rpc' = "sendDelta"
          /\ UNCHANGED <<streams, errMsgs>>
       \/ /\ streams' = [streams EXCEPT ![k].eof = TRUE]
          /\ rpc' = "recvInput"
          /\ UNCHANGED <<delta, recvd, errMsgs>>
       \/ /\ streams' = CloseAll(streams)
          /\ errMsgs' = Append(errMsgs, "recvErr")
          /\ rpc' = AfterReturn
          /\ UNCHANGED <<delta, recvd>>
  /\ UNCHANGED <<uiVars, elVars, inputEv, waiters, deltaMsgs, quitMsgs,
                 content, requests>>

\* Mutant: the Requester appends the fragment to the transcript itself.
DeltaMessageSend_Direct ==
  /\ Running
  /\ rpc = "sendDelta"
  /\ Len(messages) > 0
  /\ messages' = ApplyDelta(messages, delta)
  /\ vpContent' = messages'
  /\ rpc' = "recv"
  /\ UNCHANGED <<textarea, taWidth, width, height, err, stdout, elVars, inputEv,
                 cmdVars, content, delta, requests, streams, recvd>>

\* m.deltaMessage <- ... (main.go:199) meets <-msg of a waitForDelta (main.go:33).
DeltaMessageSend ==
  /\ Running
  /\ rpc = "sendDelta"
  /\ waiters > 0
  /\ waiters' = waiters - 1
  /\ deltaMsgs' = Append(deltaMsgs, delta)
  /\ rpc' = "recv"
  /\ UNCHANGED <<uiVars, elVars, inputEv, errMsgs, quitMsgs,
                 content, delta, requests, streams, recvd>>

Next ==
  \/ KeyPress
  \/ WindowResize
  \/ UpdateKeyQuit
  \/ UpdateKeyEnter
  \/ InputMessageSend
  \/ UpdateKeyOther
  \/ UpdateWindowSize
  \/ UpdateDelta
  \/ UpdateErr
  \/ QuitProgram
  \/ CreateChatCompletionStream
  \/ StreamRecv
  \/ DeltaMessageSend

Spec == Init /\ [][Next]_vars

\* Go runs every goroutine that can run; the user and the terminal are free.
Fairness ==
  /\ WF_vars(UpdateKeyQuit)
  /\ WF_vars(UpdateKeyEnter)
  /\ WF_vars(InputMessageSend)
  /\ WF_vars(UpdateKeyOther)
  /\ WF_vars(UpdateWindowSize)
  /\ WF_vars(UpdateDelta)
  /\ WF_vars(UpdateErr)
  /\ WF_vars(QuitProgram)
  /\ WF_vars(CreateChatCompletionStream)
  /\ WF_vars(StreamRecv)
  /\ WF_vars(DeltaMessageSend)

FairSpec == Spec /\ Fairness

(***************************************************************************)
(* Vocabulary of the properties.                                           *)
(***************************************************************************)
RECURSIVE Concat(_)
Concat(ss) == IF ss = <<>> THEN <<>> ELSE Head(ss) \o Concat(Tail(ss))

\* Token t belongs to a fragment received on stream k.
IsFragOf(t, k) == \E j \in 1..Len(recvd[k]) : \E p \in 1..Len(recvd[k][j]) : recvd[k][j][p] = t

\* The tokens of `line` that come from stream k, in their order on the line.
FragsOn(line, k) == SelectSeq(line, LAMBDA t : IsFragOf(t, k))

\* What follows the label on every response line, in line order: the text
\* the Event Loop has applied so far.
Applied == Concat([i \in 1..(Len(messages) \div 2) |-> Tail(messages[2 * i])])

\* Everything stream.Recv has returned, in order.
Received == Concat([k \in 1..Len(recvd) |-> Concat(recvd[k])])

\* Fragments handed to the Requester's send or to a waitForDelta, not yet applied.
InFlight == Concat(deltaMsgs) \o (IF rpc = "sendDelta" THEN delta ELSE <<>>)

NoError == rpc # "done" /\ errMsgs = <<>> /\ err = "nil"
QuitKeyPending == inputEv.kind \in {"KeyCtrlC", "KeyEsc"}
QuitKeyHandled == Len(stdout) > 0

(***************************************************************************)
(* C1: in an error-free run every fragment of the k-th response is on      *)
(* transcript line 2k and on no other line, and once no fragment of it is  *)
(* in flight line 2k is the placeholder followed by exactly the fragments  *)
(* of response k in order, also when message k+1 is submitted before all   *)
(* fragments of response k have been applied.                              *)
(***************************************************************************)
C1_FragmentsOnOwnLine ==
  NoError =>
    \A k \in 1..Len(recvd) :
      /\ \A i \in 1..Len(messages) : FragsOn(messages[i], k) # <<>> => i = 2 * k
      /\ FragsOn(InFlight, k) = <<>> => messages[2 * k] = SystemLine \o Concat(recvd[k])

(***************************************************************************)
(* C2: the transcript always has two lines per handled Submit, line 2i-1   *)
(* the user line with the i-th submitted text and line 2i a response line, *)
(* and only the Submit handler changes the number of lines.                *)
(***************************************************************************)
C2_Shape ==
  /\ Len(messages) = 2 * Len(submitted)
  /\ \A i \in 1..Len(submitted) :
       /\ messages[2 * i - 1] = <<"You: ">> \o submitted[i]
       /\ Len(messages[2 * i]) >= 1
       /\ messages[2 * i][1] = "System: "

C2_TwoLinesPerSubmit ==
  /\ []C2_Shape
  /\ [][Len(messages') # Len(messages) =>
          /\ elpc = "dispatch" /\ inputEv.kind = "KeyEnter"
          /\ Len(submitted') = Len(submitted) + 1
          /\ Len(messages') = Len(messages) + 2]_vars

\* Two submissions handled, with different texts.
C2_Witness ==
  /\ Len(submitted) = 2
  /\ submitted[1] # submitted[2]
  /\ Len(messages) = 4

(***************************************************************************)
(* C3: the text applied to the transcript is, fragment by fragment and in  *)
(* order, what the Requester received from the streams: every received     *)
(* fragment is applied or still in flight, none is skipped, duplicated or  *)
(* reordered, and one Event Loop step applies one fragment.                *)
(***************************************************************************)
C3_OrderPreserving ==
  /\ [](Applied \o InFlight = Received)
  /\ [][\/ messages' = messages
        \/ Applied' = Applied
        \/ \E i \in 1..Len(deltaMsgs) :
             /\ Applied' = Applied \o deltaMsgs[i]
             /\ deltaMsgs' = RemoveAt(deltaMsgs, i)]_vars

\* Three fragments of one response applied, in the order received.
C3_Witness ==
  /\ Len(recvd) >= 1
  /\ Len(recvd[1]) = 3
  /\ messages[2] = SystemLine \o recvd[1][1] \o recvd[1][2] \o recvd[1][3]

(***************************************************************************)
(* C4: no reachable state has the Event Loop blocked in its send on        *)
(* inputMessage while the Requester is blocked in its send on              *)
(* deltaMessage with no waitForDelta to receive it.                        *)
(***************************************************************************)
C4_NoMutualBlock ==
  ~(elpc = "sending" /\ rpc = "sendDelta" /\ waiters = 0)

(***************************************************************************)
(* C5: whenever a Quit key is pressed, in any reachable state, the Event   *)
(* Loop is able to handle it (it is not held for ever inside a handler),   *)
(* and the key is eventually handled and the program terminates, having    *)
(* written the pending input to standard output once.                      *)
(***************************************************************************)
\* Update is blocked at main.go:136 and no receive on inputMessage can follow:
\* the Requester has returned, or is itself blocked at main.go:199 with no
\* waitForDelta left to receive from deltaMessage.
Stuck ==
  /\ elpc = "sending"
  /\ \/ rpc = "done"
     \/ rpc = "sendDelta" /\ waiters = 0

C5_QuitAtAnyPoint ==
  /\ [](QuitKeyPending => ~Stuck)
  /\ [](elpc = "done" => Len(stdout) = 1)
  /\ [](QuitKeyPending => <>(elpc = "done"))

(***************************************************************************)
(* C6: when a stream read has failed after k fragments of the response     *)
(* were received, these k fragments are on the response line, in order,    *)
(* or still in flight to it; once the error is recorded and nothing is in  *)
(* flight all k are on the line; the step that handles the error event     *)
(* records the error and leaves the transcript unchanged.                  *)
(***************************************************************************)
ReadFailed == rpc = "done" /\ streams # <<>> /\ ~streams[Len(streams)].eof

C6_FailureKeepsFragments ==
  /\ [](ReadFailed =>
          LET k == Len(streams) IN
            /\ FragsOn(messages[2 * k], k) \o FragsOn(Concat(deltaMsgs), k)
                 = Concat(recvd[k])
            /\ (err # "nil" /\ deltaMsgs = <<>>) =>
                 FragsOn(messages[2 * k], k) = Concat(recvd[k]))
  /\ [][Len(errMsgs') < Len(errMsgs) =>
          /\ err' = Head(errMsgs)
          /\ messages' = messages]_vars

\* The error event is handled while the fragment handed off just before the
\* failure is still on its way to the Event Loop.
C6_Witness ==
  /\ ReadFailed
  /\ err = "recvErr"
  /\ Len(recvd[1]) = 2
  /\ deltaMsgs = <<recvd[1][2]>>
  /\ messages[2] = SystemLine \o recvd[1][1]
  /\ elpc = "dispatch"

(***************************************************************************)
(* C7: after a failure the Requester has terminated: it has emitted one    *)
(* error event, and from then on it receives no input, issues no request,  *)
(* reads no stream, sends no fragment and emits no further error.          *)
(***************************************************************************)
Failed == errMsgs # <<>> \/ err # "nil"

C7_RequesterStopsOnError ==
  /\ [](/\ Failed <=> rpc = "done"
        /\ Failed => Len(errMsgs) + (IF err = "nil" THEN 0 ELSE 1) = 1)
  /\ [][Failed =>
          /\ UNCHANGED <<rpc, content, delta, requests, recvd>>
          /\ Len(errMsgs') <= Len(errMsgs)
          /\ Len(deltaMsgs') <= Len(deltaMsgs)]_vars

\* A message submitted after the failure waits in the Event Loop's send.
C7_Witness ==
  /\ rpc = "done"
  /\ err # "nil"
  /\ elpc = "sending"
  /\ Len(submitted) > Len(requests)

(***************************************************************************)
(* C8: once an error has been recorded, a Quit key that is pressed is      *)
(* eventually handled and the program terminates, also after further       *)
(* keystrokes such as Submit.                                              *)
(***************************************************************************)
C8_QuitAfterError ==
  /\ [](err # "nil" => ~(elpc = "sending" /\ rpc = "done"))
  /\ [](err # "nil" /\ QuitKeyPending => <>(elpc = "done"))

(***************************************************************************)
(* C9: every submitted message the Requester has received has exactly one  *)
(* request, the i-th request has the i-th submitted text as the content of *)
(* its only message, and a request is issued only when every earlier       *)
(* stream has ended cleanly, so at most one stream is being read.          *)
(***************************************************************************)
C9_OneRequestPerMessage ==
  /\ Len(requests) + (IF rpc = "create" THEN 1 ELSE 0)
       + (IF elpc = "sending" THEN 1 ELSE 0) = Len(submitted)
  /\ \A i \in 1..Len(requests) :
       /\ Len(requests[i].Messages) = 1
       /\ requests[i].Messages[1].Role = "user"
       /\ requests[i].Messages[1].Content = submitted[i]
  /\ rpc = "create" => content = submitted[Len(requests) + 1]
  /\ \A k \in 1..Len(streams) :
       (k < Len(streams) \/ rpc \in {"recvInput", "create"}) => streams[k].eof
  /\ Len(streams) <= Len(requests)
  /\ rpc \in {"recv", "sendDelta"} => Len(streams) = Len(requests)

\* Two requests issued, for two different texts, the second after the first
\* stream ended.
C9_Witness ==
  /\ Len(requests) = 2
  /\ requests[1].Messages[1].Content # requests[2].Messages[1].Content
  /\ Len(streams) = 2
  /\ Len(recvd[1]) >= 1

(***************************************************************************)
(* C10: as long as no error occurs and the user has not quit, a message    *)
(* submitted when the earlier responses are complete is eventually         *)
(* received and requested, its stream ends and all fragments of its        *)
(* response are eventually applied to the transcript.                      *)
(***************************************************************************)
SubmittedWhenIdle(k) ==
  /\ Len(submitted) = k
  /\ elpc = "sending"
  /\ rpc = "recvInput"
  /\ deltaMsgs = <<>>

ResponseApplied(k) ==
  /\ Len(streams) >= k
  /\ streams[k].eof
  /\ FragsOn(Applied, k) = Concat(recvd[k])

C10_RequesterRunsForever ==
  \A k \in 1..MaxSubmits :
    SubmittedWhenIdle(k) ~> (ResponseApplied(k) \/ Failed \/ rpc = "done" \/ QuitKeyHandled)

(***************************************************************************)
(* C11: the step that handles a window-resize event sets the stored width  *)
(* and height and the width of the input widget to the new values and      *)
(* changes nothing else: transcript, pending input and session error stay, *)
(* nothing is sent on inputMessage, no waitForDelta is consumed or armed.  *)
(***************************************************************************)
C11_ResizeFrame ==
  [][(inputEv.kind = "WindowSizeMsg" /\ inputEv' # inputEv) =>
       /\ width' = inputEv.w
       /\ height' = inputEv.h
       /\ taWidth' = inputEv.w
       /\ UNCHANGED <<messages, vpContent, textarea, err, stdout>>
       /\ UNCHANGED <<elpc, message, submitted>>
       /\ UNCHANGED <<waiters, deltaMsgs, errMsgs, quitMsgs>>
       /\ UNCHANGED reqVars]_vars

\* A resize was handled with a transcript, a pending input and a fragment wait
\* in use.
C11_Witness ==
  /\ width = 80 /\ height = 24 /\ taWidth = 80
  /\ Len(messages) = 2
  /\ Len(messages[2]) = 2
  /\ textarea = <<"a">>
  /\ deltaMsgs # <<>>
  /\ inputEv = NoEvent

(***************************************************************************)
(* C12: an Enter key handled with an empty pending input appends one user  *)
(* line with empty text and one placeholder line and starts one send of    *)
(* the empty message; every empty submission is, by its position, the one  *)
(* being sent, the one received, or the content of exactly one request.    *)
(***************************************************************************)
C12_EmptySubmissionAllowed ==
  /\ [][(inputEv.kind = "KeyEnter" /\ inputEv' # inputEv /\ textarea = <<>>) =>
          /\ messages' = messages \o << <<"You: ">>, <<"System: ">> >>
          /\ submitted' = Append(submitted, <<>>)
          /\ message' = <<>>
          /\ elpc' = "sending"
          /\ UNCHANGED reqVars]_vars
  /\ [](\A i \in 1..Len(submitted) :
          submitted[i] = <<>> =>
            /\ messages[2 * i - 1] = <<"You: ">>
            /\ i <= Len(requests) =>
                 requests[i].Messages = <<[Role |-> "user", Content |-> <<>>]>>
            /\ (i = Len(requests) + 1 /\ rpc = "create") => content = <<>>
            /\ (i > Len(requests) /\ rpc # "create") =>
                 (i = Len(submitted) /\ elpc = "sending" /\ message = <<>>))
  /\ [](Len(requests) <= Len(submitted))

\* An empty message was submitted and its request issued, with empty content.
C12_Witness ==
  /\ Len(submitted) = 1
  /\ submitted[1] = <<>>
  /\ messages = << <<"You: ">>, <<"System: ">> >>
  /\ Len(requests) = 1
  /\ requests[1].Messages[1].Content = <<>>

(***************************************************************************)
(* C13: no handler of the Event Loop blocks waiting on the Requester: in   *)
(* every reachable state in which a key or resize event is pending, the    *)
(* Event Loop can handle it without a step of the Requester.               *)
(***************************************************************************)
CanHandleInput ==
  ENABLED (UpdateKeyQuit \/ UpdateKeyEnter \/ UpdateKeyOther \/ UpdateWindowSize)

C13_NoHandlerBlocks ==
  (Running /\ inputEv # NoEvent) => CanHandleInput

(***************************************************************************)
(* C14: the Event Loop never reads deltaMessage itself: a fragment is      *)
(* received by a waitForDelta command, and after handling a fragment the   *)
(* Event Loop is back at its receive; so outside the send of the Submit    *)
(* handler a pending key or resize event can be handled whether or not a   *)
(* fragment has arrived.                                                   *)
(***************************************************************************)
C14_WaitDoesNotStarveUI ==
  /\ []((Running /\ elpc # "sending" /\ inputEv # NoEvent) => CanHandleInput)
  /\ [][Len(deltaMsgs') > Len(deltaMsgs) =>
          /\ waiters' = waiters - 1
          /\ UNCHANGED <<uiVars, elVars>>]_vars
  /\ [][Len(deltaMsgs') < Len(deltaMsgs) => elpc' = "dispatch"]_vars

\* A response is streaming, no fragment has arrived at the Event Loop, the
\* wait is armed and a key is pending.
C14_Witness ==
  /\ elpc = "dispatch"
  /\ rpc = "recv"
  /\ Len(recvd[1]) >= 1
  /\ waiters = 1
  /\ deltaMsgs = <<>>
  /\ inputEv.kind = "KeyRunes"
  /\ CanHandleInput

(***************************************************************************)
(* C15: every step leaves the transcript unchanged, appends lines at its   *)
(* end, or extends its last line; no line is removed, reordered or         *)
(* truncated and no line but the last is modified.                         *)
(***************************************************************************)
IsPrefix(a, b) == Len(a) <= Len(b) /\ SubSeq(b, 1, Len(a)) = a

C15_AppendOnly ==
  [][\/ messages' = messages
     \/ /\ Len(messages') > Len(messages)
        /\ SubSeq(messages', 1, Len(messages)) = messages
     \/ /\ Len(messages') = Len(messages)
        /\ Len(messages) > 0
        /\ \A i \in 1..(Len(messages) - 1) : messages'[i] = messages[i]
        /\ IsPrefix(messages[Len(messages)], messages'[Len(messages)])]_vars

\* Lines were appended after a response line had been extended, and the new
\* last line was extended too.
C15_Witness ==
  /\ Len(messages) = 4
  /\ Len(messages[2]) >= 2
  /\ Len(messages[4]) >= 2

(***************************************************************************)
(* C16: m.err changes only when the Event Loop handles an error event,     *)
(* from nil to the error of that event; at most one error event exists in  *)
(* a run; no step of the Requester changes transcript, pending input,      *)
(* dimensions or session error.                                            *)
(***************************************************************************)
C16_ErrorOwnedByEventLoop ==
  /\ [][err' # err =>
          /\ err = "nil"
          /\ elpc = "dispatch"
          /\ errMsgs # <<>>
          /\ err' = Head(errMsgs)
          /\ errMsgs' = Tail(errMsgs)]_vars
  /\ [](Len(errMsgs) + (IF err = "nil" THEN 0 ELSE 1) <= 1)
  /\ [][reqVars' # reqVars =>
          UNCHANGED <<messages, vpContent, textarea, taWidth, width, height,
                      err, stdout>>]_vars

\* The error of a failed read is recorded after fragments were applied.
C16_Witness ==
  /\ err = "recvErr"
  /\ errMsgs = <<>>
  /\ Len(messages) = 2
  /\ Len(messages[2]) = 3

(***************************************************************************)
(* C17: the Event Loop never applies a fragment to an empty transcript     *)
(* (the index len(m.messages)-1 is never -1): whenever a fragment is       *)
(* received, being delivered or about to be handled, the transcript holds  *)
(* at least the two lines of one submission.                               *)
(***************************************************************************)
C17_NoFragmentBeforeSubmit ==
  /\ elpc # "panic"
  /\ deltaMsgs # <<>> => Len(messages) >= 2
  /\ rpc \in {"create", "recv", "sendDelta"} => Len(messages) >= 2
  /\ SumLen(recvd) > 0 => Len(messages) >= 2

\* The first fragment of the first response has been applied.
C17_Witness ==
  /\ Len(messages) = 2
  /\ messages[2] = SystemLine \o FragText(1, 1)
  /\ deltaMsgs = <<>>
  /\ waiters = 1

(***************************************************************************)
(* C18, as stated: while the program runs exactly one fragment wait is     *)
(* armed.                                                                  *)
(***************************************************************************)
C18_ExactlyOneWait == Running => waiters = 1

(***************************************************************************)
(* What holds of the waits (C18): at every moment either one fragment wait *)
(* is armed or one fragment event is on its way from a finished wait to    *)
(* the Event Loop,                                                         *)
(* never both and never more; a wait is armed only by the Event Loop       *)
(* handling a fragment event, once per event.                              *)
(***************************************************************************)
C18_OneWaitOrOneInTransit ==
  /\ [](waiters + Len(deltaMsgs) = 1)
  /\ [][waiters' > waiters =>
          /\ waiters' = waiters + 1
          /\ Len(deltaMsgs') = Len(deltaMsgs) - 1
          /\ elpc = "dispatch"
          /\ UNCHANGED <<err, errMsgs, inputEv, textarea, width, height>>]_vars
  /\ [][Len(deltaMsgs') < Len(deltaMsgs) => waiters' = waiters + 1]_vars

(***************************************************************************)
(* C19: while the Requester has not returned none of the streams it opened *)
(* is closed, however many responses ended cleanly; once it has returned   *)
(* on an error every stream it opened is closed.                           *)
(***************************************************************************)
C19_StreamsClosedOnReturn ==
  /\ rpc # "done" => \A k \in 1..Len(streams) : ~streams[k].closed
  /\ rpc = "done" => \A k \in 1..Len(streams) : streams[k].closed
  /\ Len(streams) <= Len(requests)

\* One response ended cleanly, the next read failed: both streams are closed.
C19_Witness ==
  /\ rpc = "done"
  /\ Len(streams) = 2
  /\ streams[1].eof /\ streams[1].closed
  /\ ~streams[2].eof /\ streams[2].closed

====
